---- MODULE Spec2Model ----
(***************************************************************************)
(* AI InsightHub (src/app.py): a Streamlit script that is re-executed from *)
(* top to bottom on every user interaction.  One execution ("script run")  *)
(* is modelled as a sequence of steps, one per block of the script; pc is  *)
(* the position of the run in the script and "idle" means that the run is  *)
(* over and the page waits for the next interaction.                       *)
(*                                                                         *)
(* State that survives a script run: the temporary directory (disk), the   *)
(* process-wide genai configuration (configured) and the st.cache_resource *)
(* entry of initialize_agent (agentCache).  Everything else is rebuilt by  *)
(* each run.                                                               *)
(*                                                                         *)
(* The remote file service reports the states PROCESSING, ACTIVE and       *)
(* FAILED; the script only ever tests for "PROCESSING".  ACTIVE is written *)
(* READY here, the name the design document uses.                          *)
(***************************************************************************)
EXTENDS Naturals, FiniteSets

\* Number of distinct temporary file names the temporary directory can hold;
\* NamedTemporaryFile fails when none is free.
MaxFiles == 2

Names == 1..MaxFiles

\* The value of a path variable the run has not assigned.
Unbound == 0

Keys == {"", "k1", "k2"}
Queries == {"", "q"}
Tabs == {"video", "image", "data"}
AssetStates == {"PROCESSING", "READY", "FAILED"}

VARIABLES
    api_key,          \* st.sidebar.text_input value of this run
    uploaded,         \* the tabs whose st.file_uploader returned a file
    user_query,       \* the st.text_area value each rendered tab returned
    pressed,          \* the button the user clicked to trigger this run
    pc,               \* position of the run in the script
    configured,       \* api key held by the genai module ("" = never set)
    agentCache,       \* credential in force when the cached Agent was built
    multimodal_Agent, \* the Agent bound by this run (by that credential)
    disk,             \* names of the temporary files that exist
    video_path,       \* name bound at line 81, or Unbound
    image_path,       \* name bound at line 151, or Unbound
    remote,           \* state of the uploaded asset at the remote service
    processed,        \* .state.name of processed_video / processed_image
    pending,          \* an exception is propagating
    clicked,          \* the tab whose st.button call returned True
    shown,            \* messages rendered by this run
    ops,              \* downstream operations this run performed
    raised,           \* operations of this run that raised
    inferAsset,       \* remote state of the asset when run() was invoked
    inferAgent,       \* credential the invoked agent was built under
    escaped           \* an exception left the script run uncaught

inputs == <<api_key, uploaded, user_query, pressed>>
session == <<configured, agentCache, disk>>
runvars == <<multimodal_Agent, video_path, image_path, remote, processed,
             pending, clicked, shown, ops, raised, inferAsset, inferAgent,
             escaped>>
vars == <<inputs, pc, session, runvars>>

-----------------------------------------------------------------------------
\* Helpers, one per expression of the script.

\* A gate that lets the empty key through.
KeyPresentAlways(k) == TRUE

\* line 35: if api_key
KeyPresent(k) == k # ""

\* An analyze branch without the empty-question test.
QueryEmptyNever(q) == FALSE

\* lines 93, 143, 208: if not user_query
QueryEmpty(q) == q = ""

\* A try block whose handler takes nothing.
CaughtNever(failed) == FALSE

\* lines 120, 173, 231: except Exception.  Every failure of upload_file,
\* get_file and Agent.run is an Exception.
Caught(failed) == failed

\* A cleanup that leaves the file.
UnlinkKeeps(path, d) == d

\* lines 124, 177: Path(p).unlink(...); the file is gone after the call.
Unlink(path, d) == d \ {path}

\* lines 124, 177: missing_ok=True.
MissingOk == TRUE

\* Path.unlink raises FileNotFoundError for a missing file unless missing_ok.
UnlinkRaises(path, d) == ~MissingOk /\ path \notin d

\* tempfile.NamedTemporaryFile: a name no existing file has.
HasFreeName(d) == Names \ d # {}
FreshName(d) == CHOOSE n \in Names \ d : \A m \in Names \ d : n <= m

\* st.button(...) returns True in the run its click triggered.
ButtonPressed(tab) == pressed = tab

-----------------------------------------------------------------------------
\* First page load: every widget is empty and the script starts to run.
Init ==
    /\ api_key = ""
    /\ uploaded = {}
    /\ user_query = [t \in Tabs |-> ""]
    /\ pressed = "none"
    /\ pc = "gate"
    /\ configured = ""
    /\ agentCache = "none"
    /\ multimodal_Agent = "unbound"
    /\ disk = {}
    /\ video_path = Unbound
    /\ image_path = Unbound
    /\ remote = "NONE"
    /\ processed = "NONE"
    /\ pending = FALSE
    /\ clicked = "none"
    /\ shown = {}
    /\ ops = {}
    /\ raised = {}
    /\ inferAsset = "NONE"
    /\ inferAgent = "none"
    /\ escaped = FALSE

\* A user interaction re-executes the script (lines 1-33); the script's
\* globals start fresh.  The api key and the click that caused the run are
\* drawn here, the other widget values where the script reads them.
RunStart ==
    /\ pc = "idle"
    /\ api_key' \in Keys
    /\ uploaded' = {}
    /\ user_query' = [t \in Tabs |-> ""]
    /\ pressed' \in Tabs \cup {"none"}
    /\ pc' = "gate"
    /\ multimodal_Agent' = "unbound"
    /\ video_path' = Unbound
    /\ image_path' = Unbound
    /\ remote' = "NONE"
    /\ processed' = "NONE"
    /\ pending' = FALSE
    /\ clicked' = "none"
    /\ shown' = {}
    /\ ops' = {}
    /\ raised' = {}
    /\ inferAsset' = "NONE"
    /\ inferAgent' = "none"
    /\ escaped' = FALSE
    /\ UNCHANGED session

\* lines 35-44: the credential gate.
Gate ==
    /\ pc = "gate"
    /\ IF KeyPresent(api_key)
       THEN \E rejected \in BOOLEAN :
              IF rejected
              THEN /\ shown' = shown \cup {"key_error"}
                   /\ pc' = "idle"
                   /\ UNCHANGED configured
              ELSE /\ configured' = api_key
                   /\ shown' = shown \cup {"key_ok"}
                   /\ pc' = "init_agent"
       ELSE /\ shown' = shown \cup {"key_warning"}
            /\ pc' = "idle"
            /\ UNCHANGED configured
    /\ UNCHANGED <<inputs, agentCache, disk, multimodal_Agent, video_path,
                   image_path, remote, processed, pending, clicked, ops,
                   raised, inferAsset, inferAgent, escaped>>

\* lines 46-53 and 68: initialize_agent() under st.cache_resource.  The
\* function takes no argument, so the cache has one entry, filled by the
\* first call and returned by every later one.
InitAgent ==
    /\ pc = "init_agent"
    /\ agentCache' = IF agentCache = "none" THEN configured ELSE agentCache
    /\ multimodal_Agent' = agentCache'
    /\ ops' = ops \cup {"init"}
    /\ pc' = "video_tab"
    /\ UNCHANGED <<inputs, configured, disk, video_path, image_path, remote,
                   processed, pending, clicked, shown, raised, inferAsset,
                   inferAgent, escaped>>

-----------------------------------------------------------------------------
\* Video tab, lines 73-124.

StageOutcomes == {"create_failed", "write_failed", "ok"}

\* lines 75-81: with a file in the uploader, every run writes it to a new
\* temporary file (delete=False), outside any try block.  An OSError from
\* NamedTemporaryFile or from write() leaves the script run; a failed
\* write() leaves the file it was writing, and video_path unbound.
VideoStage ==
    /\ pc = "video_tab"
    /\ \E video_file \in BOOLEAN :
       IF video_file
       THEN \E outcome \in StageOutcomes :
              /\ outcome # "create_failed" => HasFreeName(disk)
              /\ uploaded' = uploaded \cup {"video"}
              /\ ops' = ops \cup {"stage"}
              /\ disk' = IF outcome = "create_failed" THEN disk
                         ELSE disk \cup {FreshName(disk)}
              /\ IF outcome = "ok"
                 THEN /\ video_path' = FreshName(disk)
                      /\ pc' = "video_button"
                      /\ UNCHANGED <<raised, escaped>>
                 ELSE /\ raised' = raised \cup {"stage"}
                      /\ escaped' = TRUE
                      /\ pc' = "idle"
                      /\ UNCHANGED video_path
       ELSE /\ pc' = "image_tab"
            /\ UNCHANGED <<uploaded, ops, disk, video_path, raised, escaped>>
    /\ UNCHANGED <<api_key, user_query, pressed, configured, agentCache,
                   multimodal_Agent, image_path, remote, processed, pending,
                   clicked, shown, inferAsset, inferAgent>>

\* lines 83-95: the player, the question box and the button.
VideoButton ==
    /\ pc = "video_button"
    /\ \E q \in Queries : user_query' = [user_query EXCEPT !["video"] = q]
    /\ IF ButtonPressed("video")
       THEN /\ clicked' = "video"
            /\ IF QueryEmpty(user_query'["video"])
               THEN /\ shown' = shown \cup {"query_warning"}
                    /\ pc' = "image_tab"
               ELSE /\ pc' = "video_upload"
                    /\ UNCHANGED shown
       ELSE /\ pc' = "image_tab"
            /\ UNCHANGED <<clicked, shown>>
    /\ UNCHANGED <<api_key, uploaded, pressed, session, multimodal_Agent, video_path, image_path,
                   remote, processed, pending, ops, raised, inferAsset,
                   inferAgent, escaped>>

\* line 99: processed_video = upload_file(video_path).  It raises when the
\* file is gone or the service rejects it; otherwise the handle carries the
\* state the service reports.
VideoUpload ==
    /\ pc = "video_upload"
    /\ ops' = ops \cup {"upload"}
    /\ \/ /\ raised' = raised \cup {"upload"}
          /\ pending' = TRUE
          /\ pc' = "video_except"
          /\ UNCHANGED <<remote, processed>>
       \/ /\ video_path \in disk
          /\ \E st \in AssetStates :
                /\ remote' = st
                /\ processed' = st
          /\ pc' = "video_poll"
          /\ UNCHANGED <<raised, pending>>
    /\ UNCHANGED <<inputs, session, multimodal_Agent, video_path, image_path,
                   clicked, shown, inferAsset, inferAgent, escaped>>

\* line 100: while processed_video.state.name == "PROCESSING".
VideoPoll ==
    /\ pc = "video_poll"
    /\ pc' = IF processed = "PROCESSING" THEN "video_sleep" ELSE "video_infer"
    /\ UNCHANGED <<inputs, session, runvars>>

\* lines 101-102: time.sleep(1); processed_video = get_file(name).
VideoSleep ==
    /\ pc = "video_sleep"
    /\ ops' = ops \cup {"poll"}
    /\ \/ /\ raised' = raised \cup {"poll"}
          /\ pending' = TRUE
          /\ pc' = "video_except"
          /\ UNCHANGED processed
       \/ /\ processed' = remote
          /\ pc' = "video_poll"
          /\ UNCHANGED <<raised, pending>>
    /\ UNCHANGED <<inputs, session, multimodal_Agent, video_path, image_path,
                   remote, clicked, shown, inferAsset, inferAgent, escaped>>

\* lines 105-118: the prompt, multimodal_Agent.run(prompt, videos=[...]) and
\* the rendering of the answer.
VideoInfer ==
    /\ pc = "video_infer"
    /\ ops' = ops \cup {"infer"}
    /\ inferAsset' = remote
    /\ inferAgent' = multimodal_Agent
    /\ \/ /\ raised' = raised \cup {"infer"}
          /\ pending' = TRUE
          /\ pc' = "video_except"
          /\ UNCHANGED shown
       \/ /\ shown' = shown \cup {"result"}
          /\ pc' = "video_finally"
          /\ UNCHANGED <<raised, pending>>
    /\ UNCHANGED <<inputs, session, multimodal_Agent, video_path, image_path,
                   remote, processed, clicked, escaped>>

\* lines 120-121: except Exception as error: st.error(...).
VideoExcept ==
    /\ pc = "video_except"
    /\ IF Caught(pending)
       THEN /\ shown' = shown \cup {"analysis_error"}
            /\ pending' = FALSE
       ELSE UNCHANGED <<shown, pending>>
    /\ pc' = "video_finally"
    /\ UNCHANGED <<inputs, session, multimodal_Agent, video_path, image_path,
                   remote, processed, clicked, ops, raised, inferAsset,
                   inferAgent, escaped>>

\* lines 122-124: finally: Path(video_path).unlink(missing_ok=True).  An
\* exception the handler did not take goes on after the cleanup.
VideoFinally ==
    /\ pc = "video_finally"
    /\ disk' = Unlink(video_path, disk)
    /\ IF pending \/ UnlinkRaises(video_path, disk)
       THEN /\ escaped' = TRUE
            /\ pc' = "idle"
       ELSE /\ pc' = "image_tab"
            /\ UNCHANGED escaped
    /\ UNCHANGED <<inputs, configured, agentCache, multimodal_Agent,
                   video_path, image_path, remote, processed, pending,
                   clicked, shown, ops, raised, inferAsset, inferAgent>>

-----------------------------------------------------------------------------
\* Image tab, lines 126-177.

\* lines 128-145: the uploader, the preview, the question box and the button.
ImageButton ==
    /\ pc = "image_tab"
    /\ \E image_file \in BOOLEAN :
       IF image_file
       THEN /\ uploaded' = uploaded \cup {"image"}
            /\ \E q \in Queries :
                  user_query' = [user_query EXCEPT !["image"] = q]
            /\ IF ButtonPressed("image")
               THEN /\ clicked' = "image"
                    /\ IF QueryEmpty(user_query'["image"])
                       THEN /\ shown' = shown \cup {"query_warning"}
                            /\ pc' = "data_tab"
                       ELSE /\ pc' = "image_stage"
                            /\ UNCHANGED shown
               ELSE /\ pc' = "data_tab"
                    /\ UNCHANGED <<clicked, shown>>
       ELSE /\ pc' = "data_tab"
            /\ UNCHANGED <<uploaded, user_query, clicked, shown>>
    /\ UNCHANGED <<api_key, pressed, session, multimodal_Agent, video_path, image_path,
                   remote, processed, pending, ops, raised, inferAsset,
                   inferAgent, escaped>>

\* lines 149-151: the temporary file is written inside the try block, and
\* image_path is bound only after write() returned.
ImageStage ==
    /\ pc = "image_stage"
    /\ \E outcome \in StageOutcomes :
          /\ outcome # "create_failed" => HasFreeName(disk)
          /\ ops' = ops \cup {"stage"}
          /\ disk' = IF outcome = "create_failed" THEN disk
                     ELSE disk \cup {FreshName(disk)}
          /\ IF outcome = "ok"
             THEN /\ image_path' = FreshName(disk)
                  /\ pc' = "image_upload"
                  /\ UNCHANGED <<raised, pending>>
             ELSE /\ raised' = raised \cup {"stage"}
                  /\ pending' = TRUE
                  /\ pc' = "image_except"
                  /\ UNCHANGED image_path
    /\ UNCHANGED <<inputs, configured, agentCache, multimodal_Agent,
                   video_path, remote, processed, clicked, shown, inferAsset,
                   inferAgent, escaped>>

\* line 154: processed_image = upload_file(image_path); no state is polled.
ImageUpload ==
    /\ pc = "image_upload"
    /\ ops' = ops \cup {"upload"}
    /\ \/ /\ raised' = raised \cup {"upload"}
          /\ pending' = TRUE
          /\ pc' = "image_except"
          /\ UNCHANGED <<remote, processed>>
       \/ /\ image_path \in disk
          /\ \E st \in AssetStates :
                /\ remote' = st
                /\ processed' = st
          /\ pc' = "image_infer"
          /\ UNCHANGED <<raised, pending>>
    /\ UNCHANGED <<inputs, session, multimodal_Agent, video_path, image_path,
                   clicked, shown, inferAsset, inferAgent, escaped>>

\* lines 157-171: the prompt, multimodal_Agent.run(prompt, images=[...]) and
\* the rendering of the answer.
ImageInfer ==
    /\ pc = "image_infer"
    /\ ops' = ops \cup {"infer"}
    /\ inferAsset' = remote
    /\ inferAgent' = multimodal_Agent
    /\ \/ /\ raised' = raised \cup {"infer"}
          /\ pending' = TRUE
          /\ pc' = "image_except"
          /\ UNCHANGED shown
       \/ /\ shown' = shown \cup {"result"}
          /\ pc' = "image_finally"
          /\ UNCHANGED <<raised, pending>>
    /\ UNCHANGED <<inputs, session, multimodal_Agent, video_path, image_path,
                   remote, processed, clicked, escaped>>

\* lines 173-174: except Exception as error: st.error(...).
ImageExcept ==
    /\ pc = "image_except"
    /\ IF Caught(pending)
       THEN /\ shown' = shown \cup {"analysis_error"}
            /\ pending' = FALSE
       ELSE UNCHANGED <<shown, pending>>
    /\ pc' = "image_finally"
    /\ UNCHANGED <<inputs, session, multimodal_Agent, video_path, image_path,
                   remote, processed, clicked, ops, raised, inferAsset,
                   inferAgent, escaped>>

\* lines 175-177: finally: Path(image_path).unlink(missing_ok=True).  When
\* staging raised, image_path is not bound and evaluating it raises
\* NameError inside the finally block.
ImageFinally ==
    /\ pc = "image_finally"
    /\ IF image_path = Unbound
       THEN /\ escaped' = TRUE
            /\ pc' = "idle"
            /\ UNCHANGED disk
       ELSE /\ disk' = Unlink(image_path, disk)
            /\ IF pending \/ UnlinkRaises(image_path, disk)
               THEN /\ escaped' = TRUE
                    /\ pc' = "idle"
               ELSE /\ pc' = "data_tab"
                    /\ UNCHANGED escaped
    /\ UNCHANGED <<inputs, configured, agentCache, multimodal_Agent,
                   video_path, image_path, remote, processed, pending,
                   clicked, shown, ops, raised, inferAsset, inferAgent>>

-----------------------------------------------------------------------------
\* Data tab, lines 179-235, and the end of the script, lines 237-247.

\* lines 181-197 and 234-235: the uploader and the parsing of the file; a
\* parsing failure is reported by the outer handler.
DataParse ==
    /\ pc = "data_tab"
    /\ \E data_file \in BOOLEAN :
       IF data_file
       THEN /\ uploaded' = uploaded \cup {"data"}
            /\ \/ /\ raised' = raised \cup {"parse"}
                  /\ shown' = shown \cup {"file_error"}
                  /\ pc' = "idle"
               \/ /\ pc' = "data_button"
                  /\ UNCHANGED <<raised, shown>>
       ELSE /\ pc' = "idle"
            /\ UNCHANGED <<uploaded, raised, shown>>
    /\ UNCHANGED <<api_key, user_query, pressed, session, multimodal_Agent, video_path, image_path,
                   remote, processed, pending, clicked, ops, inferAsset,
                   inferAgent, escaped>>

\* lines 200-210: the question box and the button.
DataButton ==
    /\ pc = "data_button"
    /\ \E q \in Queries : user_query' = [user_query EXCEPT !["data"] = q]
    /\ IF ButtonPressed("data")
       THEN /\ clicked' = "data"
            /\ IF QueryEmpty(user_query'["data"])
               THEN /\ shown' = shown \cup {"query_warning"}
                    /\ pc' = "idle"
               ELSE /\ pc' = "data_infer"
                    /\ UNCHANGED shown
       ELSE /\ pc' = "idle"
            /\ UNCHANGED <<clicked, shown>>
    /\ UNCHANGED <<api_key, uploaded, pressed, session, multimodal_Agent, video_path, image_path,
                   remote, processed, pending, ops, raised, inferAsset,
                   inferAgent, escaped>>

\* lines 211-229: the prompt with the serialized dataset,
\* multimodal_Agent.run(prompt) and the rendering of the answer.
DataInfer ==
    /\ pc = "data_infer"
    /\ ops' = ops \cup {"infer"}
    /\ inferAsset' = "NONE"
    /\ inferAgent' = multimodal_Agent
    /\ \/ /\ raised' = raised \cup {"infer"}
          /\ pending' = TRUE
          /\ pc' = "data_except"
          /\ UNCHANGED shown
       \/ /\ shown' = shown \cup {"result"}
          /\ pc' = "idle"
          /\ UNCHANGED <<raised, pending>>
    /\ UNCHANGED <<inputs, session, multimodal_Agent, video_path, image_path,
                   remote, processed, clicked, escaped>>

\* lines 231-235: the inner except Exception, and behind it the outer one.
DataExcept ==
    /\ pc = "data_except"
    /\ IF Caught(pending)
       THEN /\ shown' = shown \cup {"analysis_error"}
            /\ pending' = FALSE
            /\ UNCHANGED escaped
       ELSE /\ escaped' = TRUE
            /\ UNCHANGED <<shown, pending>>
    /\ pc' = "idle"
    /\ UNCHANGED <<inputs, session, multimodal_Agent, video_path, image_path,
                   remote, processed, clicked, ops, raised, inferAsset,
                   inferAgent>>

-----------------------------------------------------------------------------
\* The environment of the script.

\* The remote service finishes or gives up the preprocessing of the asset.
RemoteProgress ==
    /\ remote = "PROCESSING"
    /\ remote' \in {"READY", "FAILED"}
    /\ UNCHANGED <<inputs, pc, session, multimodal_Agent, video_path,
                   image_path, processed, pending, clicked, shown, ops,
                   raised, inferAsset, inferAgent, escaped>>

\* Something else than the script removes a temporary file.
ExternalRemove ==
    /\ \E f \in disk : disk' = disk \ {f}
    /\ UNCHANGED <<inputs, pc, configured, agentCache, runvars>>

-----------------------------------------------------------------------------
\* The steps of the script run, taken one after the other by the interpreter.
Script ==
    \/ Gate \/ InitAgent
    \/ VideoStage \/ VideoButton \/ VideoUpload \/ VideoPoll \/ VideoSleep
    \/ VideoInfer \/ VideoExcept \/ VideoFinally
    \/ ImageButton \/ ImageStage \/ ImageUpload \/ ImageInfer \/ ImageExcept
    \/ ImageFinally
    \/ DataParse \/ DataButton \/ DataInfer \/ DataExcept

Next ==
    \/ RunStart
    \/ Gate \/ InitAgent
    \/ VideoStage \/ VideoButton \/ VideoUpload \/ VideoPoll \/ VideoSleep
    \/ VideoInfer \/ VideoExcept \/ VideoFinally
    \/ ImageButton \/ ImageStage \/ ImageUpload \/ ImageInfer \/ ImageExcept
    \/ ImageFinally
    \/ DataParse \/ DataButton \/ DataInfer \/ DataExcept
    \/ RemoteProgress
    \/ ExternalRemove

Spec == Init /\ [][Next]_vars

\* A started script run is executed to its end: the interpreter always takes
\* the next step of the script.  Nothing is assumed of the user or of the
\* remote service.
FairSpec == Spec /\ WF_vars(Script)

-----------------------------------------------------------------------------
\* Properties.

\* The messages of the analyze branches; "file_error" (line 235) belongs to
\* the display of the data file, "key_..." to the gate.
RequestMessages == {"result", "analysis_error", "query_warning"}
VideoRequestSteps == {"video_upload", "video_poll", "video_sleep",
                      "video_infer", "video_except", "video_finally"}
ImageRequestSteps == {"image_stage", "image_upload", "image_infer",
                      "image_except", "image_finally"}

\* C1: in every tab, when the analyze button is pressed while the question
\* is empty, the run never invokes multimodal_Agent.run and the warning is
\* on the page.
EmptyQueryNeverInfers ==
    \A t \in Tabs :
        clicked = t /\ user_query[t] = ""
            => /\ "infer" \notin ops
               /\ "upload" \notin ops
               /\ "query_warning" \in shown
               /\ "result" \notin shown

EmptyQueryWarned ==
    /\ pc = "idle"
    /\ clicked = "image"
    /\ user_query["image"] = ""
    /\ "query_warning" \in shown

\* C2: a run whose api key is empty, or whose genai.configure raised, stops
\* at the gate: nothing is staged, uploaded, polled, initialized or inferred
\* and the only thing on the page is the gate's warning or error.
GateBlocksDownstream ==
    (api_key = "" \/ "key_error" \in shown) /\ pc # "gate"
        => /\ pc = "idle"
           /\ ops = {}
           /\ uploaded = {}
           /\ multimodal_Agent = "unbound"
           /\ video_path = Unbound /\ image_path = Unbound
           /\ remote = "NONE"
           /\ inferAgent = "none"
           /\ shown \in {{"key_warning"}, {"key_error"}}
           /\ ~escaped

GateBlockedLaterRun ==
    /\ pc = "idle"
    /\ agentCache # "none"
    /\ disk # {}
    /\ "key_error" \in shown

\* C3: whenever multimodal_Agent.run is invoked with a video or an image,
\* the remote state of that asset is not PROCESSING.
AssetNotProcessingAtInference ==
    "infer" \in ops /\ clicked \in {"video", "image"}
        => inferAsset # "PROCESSING"

\* C4: the video asset handed to multimodal_Agent.run after the polling
\* loop is READY; when the polled state is FAILED the request ends with the
\* error message and without an inference.
PolledAssetReady ==
    /\ clicked = "video" /\ "infer" \in ops => inferAsset = "READY"
    /\ clicked = "video" /\ processed = "FAILED" /\ pc = "idle"
           => "analysis_error" \in shown /\ "infer" \notin ops

\* C5: once a video or image request with a non-empty question and a staged
\* file is over, the staged file does not exist and the cleanup raised
\* nothing, whether upload, polling and inference succeeded or raised, and
\* also when the file had been removed before the cleanup.
StagedFileReleased ==
    /\ clicked = "video" /\ user_query["video"] # ""
         /\ pc \notin VideoRequestSteps
           => video_path \notin disk /\ ~escaped
    /\ clicked = "image" /\ user_query["image"] # ""
         /\ image_path # Unbound /\ pc \notin ImageRequestSteps
           => image_path \notin disk /\ ~escaped

ReleasedAfterFailure ==
    /\ pc = "idle"
    /\ clicked = "image"
    /\ image_path # Unbound
    /\ "infer" \in raised
    /\ image_path \notin disk

\* C6: at the end of every script run in which staging did not raise (a file
\* present without a click, a click with an empty question, an analysis
\* that completed or failed) no staged temporary file exists.
NoStagedFileOutlivesRun == pc = "idle" /\ "stage" \notin raised => disk = {}

\* C7: every submitted video request reaches the end of its run, also when
\* the remote service never moves the asset out of PROCESSING.
PollingTerminates == (pc = "video_upload") ~> (pc = "idle")

\* C8: a run in which upload, polling or inference raised ends with the
\* error message as the only message of the request, no exception leaves
\* the run and the next run can start.
FailuresRecovered ==
    raised \cap {"upload", "poll", "infer"} # {} /\ pc = "idle"
        => /\ ~escaped
           /\ ~pending
           /\ shown \cap RequestMessages = {"analysis_error"}
           /\ ENABLED RunStart

PollFailureRecovered ==
    /\ pc = "idle"
    /\ clicked = "video"
    /\ "poll" \in raised

\* C9: the agent an inference is invoked on was built under the api key of
\* the run that invokes it.
AgentKeyedByCredential == "infer" \in ops => inferAgent = api_key

\* C10: a run in which staging raised ends with the error message on the
\* page and no exception leaves the run, cleanup included.
StagingFailureContained ==
    "stage" \in raised /\ pc = "idle"
        => ~escaped /\ "analysis_error" \in shown
====
